---- MODULE Spec2Model ----
(***************************************************************************)
(* DataProcessor (src/demo/examples/python/data_processor.py): a dispatcher *)
(* that routes a value of shape str / list / dict and an operation name to  *)
(* a shape transform, records the ProcessingResult in processing_history and*)
(* derives statistics from that history.                                    *)
(*                                                                          *)
(* Python values are records [t |-> <type(x).__name__>, <payload>]:         *)
(*   str   chars = sequence of one-character strings                        *)
(*   int   num   = the integer                                              *)
(*   bool  truth = TRUE or FALSE                                            *)
(*   NoneType    no payload                                                 *)
(*   list  elems = sequence of values                                       *)
(*   dict  items = sequence of <<key, value>> pairs in insertion order,     *)
(*         keys pairwise distinct                                           *)
(***************************************************************************)
EXTENDS Integers, Sequences, FiniteSets, TLC

VARIABLES
  heap,       \* the list objects: processing_history and the caller's copy
  callerRef,  \* the list object the caller holds from get_processing_history
  data,       \* argument data of the pending or last process_data call
  operation,  \* argument operation of that call
  result,     \* <<record>> returned by the last process_data call, or <<>>
  stats,      \* <<mapping>> returned by the last get_statistics call, or <<>>
  lastOp,     \* the public method that ran last
  clock,      \* datetime.now(), in ticks
  calls,      \* process_data calls since construction
  log,        \* records returned by process_data since construction or the
              \* last clear_history, in call order
  raisedOut   \* whether the last process_data call raised to its caller

vars == <<heap, callerRef, data, operation, result, stats, lastOp, clock,
          calls, log, raisedOut>>

(* ------------------------------ bounds -------------------------------- *)
MaxCalls == 2
MaxStrLen == 2
MaxListLen == 2
MaxEntries == 2

(* --------------------------- Python values ---------------------------- *)
None == [t |-> "NoneType"]

PyStr(s) == [t |-> "str", chars |-> s]

PyInt(n) == [t |-> "int", num |-> n]

PyList(s) == [t |-> "list", elems |-> s]

PyDict(items) == [t |-> "dict", items |-> items]

PyBool(b) == [t |-> "bool", truth |-> b]

TypeName(x) == x.t

(* isinstance(x, cls) for the classes the module tests *)
IsInstance(x, cls) == x.t = cls

(* truth value of an object: '' , 0, None, [] and {} are false *)
Truthy(x) ==
  CASE x.t = "str" -> x.chars # <<>>
    [] x.t = "int" -> x.num # 0
    [] x.t = "NoneType" -> FALSE
    [] x.t = "bool" -> x.truth
    [] x.t = "list" -> x.elems # <<>>
    [] OTHER -> x.items # <<>>

(* str.upper() on one character, and on a string *)
UpperChar(c) ==
  CASE c = "a" -> "A"
    [] c = "b" -> "B"
    [] c = "l" -> "L"
    [] c = "n" -> "N"
    [] c = "u" -> "U"
    [] OTHER -> c

Upper(s) == [i \in 1..Len(s) |-> UpperChar(s[i])]

(* code point of a character, the order str comparison uses *)
Ord(c) ==
  CASE c = "\n" -> 10
    [] c = " " -> 32
    [] c = "0" -> 48
    [] c = "1" -> 49
    [] c = "A" -> 65
    [] c = "B" -> 66
    [] c = "L" -> 76
    [] c = "N" -> 78
    [] c = "U" -> 85
    [] c = "_" -> 95
    [] c = "a" -> 97
    [] c = "b" -> 98
    [] c = "l" -> 108
    [] c = "n" -> 110
    [] c = "u" -> 117
    [] OTHER -> 123

IsSpace(c) == c \in {" ", "\n", "\r", "\t"}

RECURSIVE LStrip(_)
LStrip(s) == IF s # <<>> /\ IsSpace(Head(s)) THEN LStrip(Tail(s)) ELSE s

RECURSIVE RStrip(_)
RStrip(s) ==
  IF s # <<>> /\ IsSpace(s[Len(s)]) THEN RStrip(SubSeq(s, 1, Len(s) - 1)) ELSE s

(* str.strip() *)
Strip(s) == RStrip(LStrip(s))

(* str.replace(old, new) for a one-character old and new *)
Replace(s, old, new) == [i \in 1..Len(s) |-> IF s[i] = old THEN new ELSE s[i]]

DigitChars == <<"0", "1", "2", "3", "4", "5", "6", "7", "8", "9">>

IsDigit(c) == \E i \in 1..Len(DigitChars) : DigitChars[i] = c

DigitVal(c) == (CHOOSE i \in 1..Len(DigitChars) : DigitChars[i] = c) - 1

(* decimal digits of a natural number *)
RECURSIVE Digits(_)
Digits(n) ==
  IF n < 10 THEN <<DigitChars[n + 1]>>
  ELSE Append(Digits(n \div 10), DigitChars[(n % 10) + 1])

(* int(s) for a string of decimal digits *)
RECURSIVE IntOf(_)
IntOf(s) ==
  IF s = <<>> THEN 0
  ELSE 10 * IntOf(SubSeq(s, 1, Len(s) - 1)) + DigitVal(s[Len(s)])

(* format(x, '') as an f-string placeholder renders a str or int key *)
Format(x) ==
  CASE x.t = "str" -> x.chars
    [] x.t = "int" -> Digits(x.num)
    [] OTHER -> <<"N", "o", "n", "e">>

(* ------------------------ outcomes of a call -------------------------- *)
(* A Python call either returns a value or raises an exception.           *)
Return(x) == [raised |-> FALSE, val |-> x, exc |-> "", msg |-> ""]

Raise(cls, message) == [raised |-> TRUE, val |-> None, exc |-> cls, msg |-> message]

(* ------------------------------- json --------------------------------- *)
(* json.loads on texts over the alphabet {letters, '_', whitespace,        *)
(* digits}: the only JSON documents over it are the literal null and the   *)
(* unsigned integers without a leading zero, each between optional         *)
(* whitespace; every other text raises JSONDecodeError.                    *)
IsJsonInt(b) ==
  /\ b # <<>>
  /\ \A i \in 1..Len(b) : IsDigit(b[i])
  /\ (Len(b) > 1 => b[1] # "0")

json_loads(s) ==
  LET b == Strip(s)
  IN  IF b = <<"n", "u", "l", "l">> THEN Return(None)
      ELSE IF IsJsonInt(b) THEN Return(PyInt(IntOf(b)))
      ELSE Raise("JSONDecodeError", "Expecting value")

(* ------------------------- text transform ------------------------------ *)
RawKey == PyStr(<<"r", "a", "w">>)

ParsedKey == PyStr(<<"p", "a", "r", "s", "e", "d">>)

(* _process_string_data whose last branch falls into the transform *)
_process_string_data_default_upper(d, op) ==
  IF op = "parse" THEN
    LET r == json_loads(d.chars)
    IN  IF r.raised /\ r.exc = "JSONDecodeError"
        THEN {Return(PyDict(<< <<RawKey, d>>, <<ParsedKey, PyBool(FALSE)>> >>))}
        ELSE {r}
  ELSE IF op = "clean" THEN
    {Return(PyStr(Replace(Replace(Strip(d.chars), "\n", " "), "\r", " ")))}
  ELSE {Return(PyStr(Upper(d.chars)))}

_process_string_data(d, op) ==
  IF op = "transform" THEN {Return(PyStr(Upper(d.chars)))}
  ELSE IF op = "parse" THEN
    LET r == json_loads(d.chars)
    IN  IF r.raised /\ r.exc = "JSONDecodeError"
        THEN {Return(PyDict(<< <<RawKey, d>>, <<ParsedKey, PyBool(FALSE)>> >>))}
        ELSE {r}
  ELSE IF op = "clean" THEN
    {Return(PyStr(Replace(Replace(Strip(d.chars), "\n", " "), "\r", " ")))}
  ELSE {Return(d)}

(* ------------------------ sequence transform --------------------------- *)
(* x < y is defined between two ints and between two strs; None, dict and  *)
(* a mixed pair raise TypeError.                                           *)
Comparable(x, y) == x.t = y.t /\ x.t \in {"int", "str"}

RECURSIVE StrLt(_, _)
StrLt(a, b) ==
  IF b = <<>> THEN FALSE
  ELSE IF a = <<>> THEN TRUE
  ELSE IF Ord(Head(a)) # Ord(Head(b)) THEN Ord(Head(a)) < Ord(Head(b))
  ELSE StrLt(Tail(a), Tail(b))

Lt(x, y) == IF x.t = "int" THEN x.num < y.num ELSE StrLt(x.chars, y.chars)

(* insert x after the elements that are not greater than it (stable) *)
RECURSIVE Insert(_, _)
Insert(s, x) ==
  IF s = <<>> THEN <<x>>
  ELSE IF Lt(x, Head(s)) THEN <<x>> \o s
  ELSE <<Head(s)>> \o Insert(Tail(s), x)

RECURSIVE InsertionSort(_)
InsertionSort(s) ==
  IF s = <<>> THEN <<>>
  ELSE Insert(InsertionSort(SubSeq(s, 1, Len(s) - 1)), s[Len(s)])

(* list.sort() in place of sorted(): it returns None *)
sorted_in_place(s) ==
  IF Len(s) >= 2 /\ \E i, j \in 1..Len(s) : i # j /\ ~Comparable(s[i], s[j])
  THEN Raise("TypeError", "'<' not supported between instances")
  ELSE Return(None)

(* sorted(data): any sort of two or more elements compares elements of     *)
(* every pair of comparison classes present, so it raises TypeError as     *)
(* soon as two elements are not comparable.                                *)
sorted(s) ==
  IF Len(s) >= 2 /\ \E i, j \in 1..Len(s) : i # j /\ ~Comparable(s[i], s[j])
  THEN Raise("TypeError", "'<' not supported between instances")
  ELSE Return(PyList(InsertionSort(s)))

Hashable(x) == x.t \notin {"dict", "list"}

Range(s) == {s[i] : i \in 1..Len(s)}

(* the iteration orders a set of these elements may have *)
Perms(S) == {p \in [1..Cardinality(S) -> S] : Range(p) = S}

(* list(set(data)): the order of a set is not defined by the language *)
ListOfSet(s) ==
  IF \E i \in 1..Len(s) : ~Hashable(s[i])
  THEN {Raise("TypeError", "unhashable type")}
  ELSE {Return(PyList(p)) : p \in Perms(Range(s))}

_process_list_data(d, op) ==
  IF op = "transform" THEN
    {Return(PyList([i \in 1..Len(d.elems) |->
        IF IsInstance(d.elems[i], "str") THEN PyStr(Upper(d.elems[i].chars)) ELSE d.elems[i]]))}
  ELSE IF op = "filter" THEN
    {Return(PyList(SelectSeq(d.elems, LAMBDA item : item # None)))}
  ELSE IF op = "sort" THEN {sorted(d.elems)}
  ELSE IF op = "unique" THEN ListOfSet(d.elems)
  ELSE {Return(d)}

(* ------------------------- mapping transform --------------------------- *)
(* dict.setdefault(k, v) in place of d[k] = v: the first value is kept *)
DictSetKeepFirst(items, k, v) ==
  IF \E i \in 1..Len(items) : items[i][1] = k
  THEN items
  ELSE Append(items, <<k, v>>)

(* d[k] = v on an insertion-ordered dict: an existing key keeps its place  *)
(* and takes the new value, a new key goes last.                           *)
DictSet(items, k, v) ==
  IF \E i \in 1..Len(items) : items[i][1] = k
  THEN [i \in 1..Len(items) |-> IF items[i][1] = k THEN <<k, v>> ELSE items[i]]
  ELSE Append(items, <<k, v>>)

(* dict(pairs) and the dict comprehension: pairs inserted left to right *)
RECURSIVE FromPairs(_)
FromPairs(pairs) ==
  IF pairs = <<>> THEN <<>>
  ELSE LET last == pairs[Len(pairs)]
       IN  DictSet(FromPairs(SubSeq(pairs, 1, Len(pairs) - 1)), last[1], last[2])

DictKeys(items) == {items[i][1] : i \in 1..Len(items)}

(* d[k] for a key that is present *)
DictGet(items, k) == items[CHOOSE i \in 1..Len(items) : items[i][1] = k][2]

(* _flatten_dict, lines 175-182: the (new_key, v) pairs collected in       *)
(* items, then dict(items)                                                 *)
RECURSIVE FlattenItems(_, _, _)
RECURSIVE _flatten_dict(_, _, _)
(* the recursive call given parent_key instead of new_key *)
RECURSIVE FlattenItems_parent_key(_, _, _)
FlattenItems_parent_key(items, parent_key, sep) ==
  IF items = <<>> THEN <<>>
  ELSE LET k == items[1][1]
           v == items[1][2]
           new_key == IF Truthy(parent_key)
                      THEN PyStr(Format(parent_key) \o sep \o Format(k))
                      ELSE k
       IN  (IF IsInstance(v, "dict")
            THEN _flatten_dict(v, parent_key, sep).items
            ELSE << <<new_key, v>> >>)
           \o FlattenItems_parent_key(Tail(items), parent_key, sep)

FlattenItems(items, parent_key, sep) ==
  IF items = <<>> THEN <<>>
  ELSE LET k == items[1][1]
           v == items[1][2]
           new_key == IF Truthy(parent_key)
                      THEN PyStr(Format(parent_key) \o sep \o Format(k))
                      ELSE k
       IN  (IF IsInstance(v, "dict")
            THEN _flatten_dict(v, new_key, sep).items
            ELSE << <<new_key, v>> >>)
           \o FlattenItems(Tail(items), parent_key, sep)

_flatten_dict(d, parent_key, sep) ==
  PyDict(FromPairs(FlattenItems(d.items, parent_key, sep)))

DefaultParentKey == PyStr(<<>>)

DefaultSep == <<"_">>

_process_dict_data(d, op) ==
  IF op = "transform" THEN
    IF \E i \in 1..Len(d.items) : ~IsInstance(d.items[i][1], "str")
    THEN {Raise("AttributeError", "object has no attribute 'upper'")}
    ELSE {Return(PyDict(FromPairs(
            [i \in 1..Len(d.items) |-> <<PyStr(Upper(d.items[i][1].chars)), d.items[i][2]>>])))}
  ELSE IF op = "filter" THEN
    {Return(PyDict(SelectSeq(d.items, LAMBDA kv : kv[2] # None)))}
  ELSE IF op = "flatten" THEN
    {Return(_flatten_dict(d, DefaultParentKey, DefaultSep))}
  ELSE {Return(d)}

(* ---------------------------- dispatcher ------------------------------- *)
(* ProcessingResult, lines 20-31 *)
ProcessingResult(success, d, metadata, timestamp, processing_time) ==
  [success |-> success, data |-> d, metadata |-> metadata,
   timestamp |-> timestamp, processing_time |-> processing_time]

(* lines 67-74: the isinstance chain that picks the shape transform *)
Dispatch(d, op) ==
  IF IsInstance(d, "str") THEN _process_string_data(d, op)
  ELSE IF IsInstance(d, "list") THEN _process_list_data(d, op)
  ELSE IF IsInstance(d, "dict") THEN _process_dict_data(d, op)
  ELSE {Raise("ValueError", "Unsupported data type")}

(* except ValueError in place of except Exception *)
IsValueError(exc) == exc = "ValueError"

(* line 96, except Exception: the classes it catches *)
IsExceptionSubclass(exc) ==
  exc \in {"ValueError", "TypeError", "AttributeError", "JSONDecodeError",
           "RecursionError"}

(* process_data inserting the new record at the front of the history *)
process_data_prepend(history, d, op, o, start_time, elapsed) ==
  IF ~o.raised THEN
    LET r == ProcessingResult(TRUE, o.val,
               [operation |-> op, input_type |-> TypeName(d),
                output_type |-> TypeName(o.val), processing_time |-> elapsed],
               start_time, elapsed)
    IN  [history |-> <<r>> \o history, ret |-> <<r>>, raised |-> FALSE]
  ELSE IF IsExceptionSubclass(o.exc) THEN
    LET r == ProcessingResult(FALSE, None, [error |-> o.msg], start_time, elapsed)
    IN  [history |-> history, ret |-> <<r>>, raised |-> FALSE]
  ELSE [history |-> history, ret |-> <<>>, raised |-> TRUE]

(* lines 61-104 for one outcome o of the shape transform, started at       *)
(* start_time and taking elapsed: the history after the call, the record   *)
(* returned, and whether an exception leaves process_data                  *)
process_data(history, d, op, o, start_time, elapsed) ==
  IF ~o.raised THEN
    LET r == ProcessingResult(TRUE, o.val,
               [operation |-> op, input_type |-> TypeName(d),
                output_type |-> TypeName(o.val), processing_time |-> elapsed],
               start_time, elapsed)
    IN  [history |-> Append(history, r), ret |-> <<r>>, raised |-> FALSE]
  ELSE IF IsExceptionSubclass(o.exc) THEN
    LET r == ProcessingResult(FALSE, None, [error |-> o.msg], start_time, elapsed)
    IN  [history |-> history, ret |-> <<r>>, raised |-> FALSE]
  ELSE [history |-> history, ret |-> <<>>, raised |-> TRUE]

(* ------------------------ history and statistics ----------------------- *)
(* the two list objects of a run: the processor's processing_history and   *)
(* the list a caller got from get_processing_history                       *)
HistObj == "processing_history"

CallerObj == "returned"

NoRef == "none"

(* get_processing_history returning the internal list itself *)
get_processing_history_alias(h) == [heap |-> h, ref |-> HistObj]

(* line 191: list.copy() makes a new list object with the same elements *)
get_processing_history(h) ==
  [heap |-> [h EXCEPT ![CallerObj] = h[HistObj]], ref |-> CallerObj]

(* clear_history rebinding a local name instead of emptying the list *)
clear_history_noop(h) == h

(* line 199: list.clear() empties the list object in place *)
clear_history(h) == [h EXCEPT ![HistObj] = <<>>]

(* a / b on floats, kept as the quotient it rounds *)
Div(a, b) == [num |-> a, den |-> b]

Float0 == Div(0, 1)

RECURSIVE SumTime(_)
SumTime(history) ==
  IF history = <<>> THEN 0
  ELSE SumTime(SubSeq(history, 1, Len(history) - 1))
       + history[Len(history)].processing_time

CountSuccess(history) ==
  Cardinality({i \in 1..Len(history) : history[i].success})

(* lines 209-225 *)
get_statistics(history) ==
  IF history = <<>> THEN [total_operations |-> 0, success_rate |-> Float0]
  ELSE LET total_operations == Len(history)
           successful_operations == CountSuccess(history)
           total_processing_time == SumTime(history)
       IN  [total_operations |-> total_operations,
            successful_operations |-> successful_operations,
            success_rate |-> Div(successful_operations, total_operations),
            total_processing_time |-> total_processing_time,
            average_processing_time |-> Div(total_processing_time, total_operations)]

(* ------------------------------ inputs -------------------------------- *)
SeqsUpTo(S, n) == UNION {[1..m -> S] : m \in 0..n}

(* dicts of at most n entries with keys in K and values in V *)
DictsOver(K, V, n) ==
  {PyDict(items) : items \in
     {s \in SeqsUpTo(K \X V, n) :
        \A i, j \in 1..Len(s) : i # j => s[i][1] # s[j][1]}}

TextChars == {"a", "A", " ", "\n", "1"}

Texts == {PyStr(s) : s \in SeqsUpTo(TextChars, MaxStrLen) \cup {<<"n", "u", "l", "l">>}}

Elements ==
  {None, PyInt(1), PyInt(2), PyStr(<<"a">>), PyStr(<<"B">>), PyDict(<<>>)}

Lists == {PyList(s) : s \in SeqsUpTo(Elements, MaxListLen)}

Mappings ==
  DictsOver({PyStr(<<"a">>), PyStr(<<"A">>), PyInt(1)},
            {None, PyInt(1), PyInt(2), PyDict(<< <<PyStr(<<"a">>), PyInt(2)>> >>)},
            MaxEntries)

(* values that are none of str, list, dict *)
Others == {None, PyInt(1), PyBool(TRUE)}

ShapeInputs == Texts \cup Lists \cup Mappings \cup Others

Operations ==
  {"transform", "parse", "clean", "filter", "sort", "unique", "flatten",
   "reverse", ""}

(* nested mappings for _flatten_dict: string keys, three levels *)
FlattenKeys == {PyStr(<<>>), PyStr(<<"a">>), PyStr(<<"a", "_", "a">>)}

Leaves == {PyInt(1), PyInt(2)}

FlattenInputs ==
  LET inner2 == DictsOver({PyStr(<<>>), PyStr(<<"a">>)}, {PyInt(2)}, 1)
      inner1 == DictsOver(FlattenKeys, Leaves \cup inner2, 1)
  IN  DictsOver(FlattenKeys, Leaves \cup inner1, MaxEntries)

(* the inputs of the history state machine *)
HistoryCalls ==
  {<<PyStr(<<"a">>), "transform">>,
   <<PyList(<<PyInt(1), PyStr(<<"a">>)>>), "transform">>,
   <<PyList(<<PyInt(1), PyStr(<<"a">>)>>), "sort">>,
   <<PyInt(1), "transform">>}

(* elapsed ticks between two readings of datetime.now() *)
Durations == {0, 1}

(* ------------------------------ actions ------------------------------- *)
NewProcessor ==
  /\ heap = [o \in {HistObj, CallerObj} |-> <<>>]
  /\ callerRef = NoRef
  /\ result = <<>>
  /\ stats = <<>>
  /\ clock = 0
  /\ calls = 0
  /\ log = <<>>
  /\ raisedOut = FALSE

Init ==
  /\ NewProcessor
  /\ data = None
  /\ operation = "transform"
  /\ lastOp = "init"

(* await processor.process_data(d, op) *)
Call(d, op) ==
  \E o \in Dispatch(d, op), elapsed \in Durations :
    LET r == process_data(heap[HistObj], d, op, o, clock, elapsed)
    IN  /\ heap' = [heap EXCEPT ![HistObj] = r.history]
        /\ result' = r.ret
        /\ raisedOut' = r.raised
        /\ log' = log \o r.ret
        /\ clock' = clock + elapsed
        /\ calls' = calls + 1
        /\ data' = d
        /\ operation' = op
        /\ lastOp' = "process"
        /\ UNCHANGED <<callerRef, stats>>

Process ==
  /\ lastOp # "args"
  /\ calls < MaxCalls
  /\ \E c \in HistoryCalls : Call(c[1], c[2])

GetHistory ==
  /\ lastOp # "args"
  /\ LET r == get_processing_history(heap)
     IN  heap' = r.heap /\ callerRef' = r.ref
  /\ lastOp' = "get_history"
  /\ UNCHANGED <<data, operation, result, stats, clock, calls, log, raisedOut>>

ClearHistory ==
  /\ lastOp # "args"
  /\ heap' = clear_history(heap)
  /\ log' = <<>>
  /\ lastOp' = "clear"
  /\ UNCHANGED <<callerRef, data, operation, result, stats, clock, calls, raisedOut>>

GetStatistics ==
  /\ lastOp # "args"
  /\ stats' = <<get_statistics(heap[HistObj])>>
  /\ lastOp' = "stats"
  /\ UNCHANGED <<heap, callerRef, data, operation, result, clock, calls, log, raisedOut>>

(* a record the caller makes up *)
Forged == ProcessingResult(TRUE, None, [error |-> ""], 0, 0)

Reverse(s) == [i \in 1..Len(s) |-> s[Len(s) + 1 - i]]

(* the caller appends to, removes from or reorders the list it was given *)
CallerMutates ==
  /\ callerRef # NoRef
  /\ \/ /\ Len(heap[callerRef]) <= MaxCalls
        /\ heap' = [heap EXCEPT ![callerRef] = Append(@, Forged)]
     \/ /\ heap[callerRef] # <<>>
        /\ heap' = [heap EXCEPT ![callerRef] = Tail(@)]
     \/ /\ Len(heap[callerRef]) >= 2
        /\ heap' = [heap EXCEPT ![callerRef] = Reverse(@)]
  /\ lastOp' = "mutate"
  /\ UNCHANGED <<callerRef, data, operation, result, stats, clock, calls, log, raisedOut>>

Next == Process \/ GetHistory \/ ClearHistory \/ GetStatistics \/ CallerMutates

Spec == Init /\ [][Next]_vars

(* one process_data call on each input of each shape *)
InitShapes ==
  /\ NewProcessor
  /\ data \in ShapeInputs
  /\ operation \in Operations
  /\ lastOp = "args"

ProcessArgs == lastOp = "args" /\ Call(data, operation)

SpecShapes == InitShapes /\ [][ProcessArgs]_vars

(* one flatten call on each nested mapping *)
InitFlatten ==
  /\ NewProcessor
  /\ data \in FlattenInputs
  /\ operation = "flatten"
  /\ lastOp = "args"

SpecFlatten == InitFlatten /\ [][ProcessArgs]_vars

(* ------------------------- history properties ------------------------- *)
History == heap[HistObj]

IsPrefix(a, b) == Len(a) <= Len(b) /\ SubSeq(b, 1, Len(a)) = a

(* a is b with some elements left out, the others in the same order *)
RECURSIVE IsSubSeq(_, _)
IsSubSeq(a, b) ==
  IF a = <<>> THEN TRUE
  ELSE IF b = <<>> THEN FALSE
  ELSE IF Head(a) = Head(b) /\ IsSubSeq(Tail(a), Tail(b)) THEN TRUE
  ELSE IsSubSeq(a, Tail(b))

EmptyStatistics == [total_operations |-> 0, success_rate |-> Float0]

(* C1: every process_data call, successful or failed, appends exactly one  *)
(* record: after N calls since construction or the last clear the history  *)
(* has length N and its last entry is the record the last call returned.   *)
C1_EveryCallRecorded ==
  /\ Len(History) = Len(log)
  /\ (lastOp = "process" =>
        History # <<>> /\ <<History[Len(History)]>> = result)

(* C2: after N >= 1 calls without a clear, get_statistics reports           *)
(* total_operations = N, successful_operations = the number of calls that   *)
(* returned success, and success_rate = successful_operations / N.          *)
C2_StatisticsCountCalls ==
  (lastOp = "stats" /\ Len(log) >= 1) =>
    /\ stats[1].total_operations = Len(log)
    /\ "successful_operations" \in DOMAIN stats[1]
    /\ stats[1].successful_operations = CountSuccess(log)
    /\ stats[1].success_rate = Div(CountSuccess(log), Len(log))

(* C8: get_processing_history returns a copy: appending to, removing from   *)
(* or reordering the returned list changes neither the internal history nor *)
(* what get_statistics and get_processing_history return afterwards.        *)
C8_DefensiveCopy ==
  [][lastOp' = "mutate" =>
       /\ heap'[HistObj] = heap[HistObj]
       /\ get_statistics(heap'[HistObj]) = get_statistics(heap[HistObj])
       /\ LET before == get_processing_history(heap)
              after == get_processing_history(heap')
          IN  after.heap[after.ref] = before.heap[before.ref]]_vars

C8_Witness ==
  /\ lastOp = "mutate"
  /\ callerRef # NoRef
  /\ History # <<>>
  /\ heap[callerRef] # History

(* C9: clear_history empties the history from every state, also an empty    *)
(* one; right after it get_processing_history returns the empty list and    *)
(* get_statistics returns exactly {total_operations: 0, success_rate: 0.0}; *)
(* the history then holds only records of calls made after the clear.       *)
C9_ClearHistory ==
  /\ [](ENABLED ClearHistory)
  /\ [](lastOp = "clear" => History = <<>>)
  /\ [][lastOp = "clear" /\ lastOp' = "stats" => stats' = <<EmptyStatistics>>]_vars
  /\ [][lastOp = "clear" /\ lastOp' = "get_history" => heap'[callerRef'] = <<>>]_vars
  /\ [](IsSubSeq(History, log))

C9_Witness ==
  /\ lastOp = "process"
  /\ calls > Len(log)
  /\ Len(log) = 1
  /\ History = result

(* C10: the history is append-only and in call order: a process_data call   *)
(* keeps the old history as a prefix of the new one, get_processing_history *)
(* and get_statistics leave it unchanged, its entries are in the order of   *)
(* the calls that returned them, and only clear_history removes entries.    *)
C10_AppendOnly ==
  [][/\ lastOp' # "clear" => IsPrefix(heap[HistObj], heap'[HistObj])
     /\ lastOp' \in {"get_history", "stats"} => heap'[HistObj] = heap[HistObj]
     /\ Len(heap'[HistObj]) < Len(heap[HistObj]) => lastOp' = "clear"
     /\ IsSubSeq(heap'[HistObj], log')]_vars

C10_Witness ==
  /\ lastOp = "process"
  /\ Len(History) >= 2
  /\ History[1] # History[2]

(* ------------------------ transform properties ------------------------ *)
Shapes == {"str", "list", "dict"}

(* the operation set the specification enumerates for each shape *)
EnumeratedOps(shape) ==
  CASE shape = "str" -> {"transform", "parse", "clean"}
    [] shape = "list" -> {"transform", "filter", "sort", "unique"}
    [] shape = "dict" -> {"transform", "filter", "flatten"}
    [] OTHER -> {}

Processed == lastOp = "process" /\ ~raisedOut /\ Len(result) = 1

(* C3: process_data never raises to its caller, whatever the input, and in  *)
(* the record it returns success is false exactly when data is None and     *)
(* metadata has an "error" key with a non-empty description.                *)
C3_NeverRaises ==
  lastOp = "process" =>
    /\ ~raisedOut
    /\ Len(result) = 1
    /\ (result[1].success = FALSE) <=>
         (/\ result[1].data = None
          /\ "error" \in DOMAIN result[1].metadata
          /\ result[1].metadata.error # "")

C3_Witness ==
  /\ Processed
  /\ data.t = "list"
  /\ operation = "sort"
  /\ ~result[1].success
  /\ result[1].metadata.error # ""

(* C4: pass-through law: for a str, list or dict and an operation name that *)
(* is not in the shape's enumerated set, process_data returns success and   *)
(* data equal to the input.                                                 *)
C4_PassThrough ==
  (lastOp = "process" /\ data.t \in Shapes /\ operation \notin EnumeratedOps(data.t)) =>
    /\ Processed
    /\ result[1].success
    /\ result[1].data = data

C4_Witness ==
  /\ Processed
  /\ data = PyStr(<<"a">>)
  /\ operation = "sort"
  /\ result[1].success
  /\ result[1].data = data

(* the documented output shape of an enumerated operation *)
OutputShapeOk(d, op, out) ==
  CASE d.t = "str" /\ op = "parse" -> TRUE
    [] d.t = "str" -> out.t = "str"
    [] OTHER -> out.t = d.t

(* C5 as stated: every enumerated operation succeeds on every input of its  *)
(* shape and returns data of the documented output shape.                   *)
C5_EnumeratedAlwaysSucceed ==
  (lastOp = "process" /\ data.t \in Shapes /\ operation \in EnumeratedOps(data.t)) =>
    /\ Processed
    /\ result[1].success
    /\ OutputShapeOk(data, operation, result[1].data)

AllOfType(s, t) == \A i \in 1..Len(s) : s[i].t = t

(* the inputs on which an enumerated operation raises *)
RaisingInput(d, op) ==
  \/ /\ d.t = "list" /\ op = "sort" /\ Len(d.elems) >= 2
     /\ ~(AllOfType(d.elems, "int") \/ AllOfType(d.elems, "str"))
  \/ /\ d.t = "list" /\ op = "unique"
     /\ \E i \in 1..Len(d.elems) : d.elems[i].t \in {"dict", "list"}
  \/ /\ d.t = "dict" /\ op = "transform"
     /\ \E i \in 1..Len(d.items) : d.items[i][1].t # "str"

(* C5 amended: an enumerated operation succeeds with data of the documented *)
(* output shape, except sort on elements that are not mutually comparable,  *)
(* unique on an unhashable element and the mapping transform on a key that  *)
(* is no string, which return a failed result.                              *)
C5_EnumeratedSucceedUnlessRaising ==
  (lastOp = "process" /\ data.t \in Shapes /\ operation \in EnumeratedOps(data.t)) =>
    /\ Processed
    /\ result[1].success <=> ~RaisingInput(data, operation)
    /\ result[1].success => OutputShapeOk(data, operation, result[1].data)
    /\ ~result[1].success => "error" \in DOMAIN result[1].metadata

C5_Witness ==
  /\ Processed
  /\ data = PyList(<<PyInt(2), PyInt(1)>>)
  /\ operation = "sort"
  /\ result[1].data = PyList(<<PyInt(1), PyInt(2)>>)

StrKeys(d) == \A i \in 1..Len(d.items) : d.items[i][1].t = "str"

UpperKey(k) == PyStr(Upper(k.chars))

(* C7 as stated: the mapping transform maps every input pair (k, v) to the  *)
(* output pair (uppercase(k), v) and keeps the number of entries.           *)
C7_TransformKeepsEveryPair ==
  (lastOp = "process" /\ data.t = "dict" /\ operation = "transform" /\ StrKeys(data)) =>
    /\ Processed
    /\ result[1].success
    /\ \A i \in 1..Len(data.items) :
         <<UpperKey(data.items[i][1]), data.items[i][2]>> \in Range(result[1].data.items)
    /\ Len(result[1].data.items) = Len(data.items)

(* C7 amended: the output keys are the uppercased input keys; an input pair *)
(* (k, v) appears as (uppercase(k), v) unless a later pair has a key with   *)
(* the same uppercase form, whose value then replaces it; the output has    *)
(* one entry per distinct uppercased key.                                   *)
C7_TransformLastPairWins ==
  (lastOp = "process" /\ data.t = "dict" /\ operation = "transform" /\ StrKeys(data)) =>
    /\ Processed
    /\ result[1].success
    /\ LET in == data.items
           out == result[1].data.items
           upper == {UpperKey(in[i][1]) : i \in 1..Len(in)}
       IN  /\ DictKeys(out) = upper
           /\ Len(out) = Cardinality(upper)
           /\ \A i \in 1..Len(in) :
                (\A j \in (i + 1)..Len(in) : UpperKey(in[j][1]) # UpperKey(in[i][1]))
                  => <<UpperKey(in[i][1]), in[i][2]>> \in Range(out)

C7_Witness ==
  /\ Processed
  /\ operation = "transform"
  /\ data = PyDict(<< <<PyStr(<<"a">>), PyInt(1)>>, <<PyStr(<<"A">>), PyInt(2)>> >>)
  /\ result[1].data = PyDict(<< <<PyStr(<<"A">>), PyInt(2)>> >>)

(* ------------------------- flatten properties -------------------------- *)
(* the non-mapping leaves of a nested mapping in iteration order, each with *)
(* the keys on the way to it: <<path, value>>                               *)
RECURSIVE LeafPaths(_, _)
LeafPaths(items, prefix) ==
  IF items = <<>> THEN <<>>
  ELSE LET path == Append(prefix, items[1][1])
           v == items[1][2]
       IN  (IF v.t = "dict" THEN LeafPaths(v.items, path) ELSE << <<path, v>> >>)
           \o LeafPaths(Tail(items), prefix)

(* k1 + sep + ... + sep + kn *)
RECURSIVE Join(_, _)
Join(path, sep) ==
  IF path = <<>> THEN <<>>
  ELSE IF Len(path) = 1 THEN path[1].chars
  ELSE path[1].chars \o sep \o Join(Tail(path), sep)

RECURSIVE DropLeadingEmpty(_)
DropLeadingEmpty(path) ==
  IF path # <<>> /\ path[1].chars = <<>> THEN DropLeadingEmpty(Tail(path)) ELSE path

IsFlat(d) == \A i \in 1..Len(d.items) : d.items[i][2].t # "dict"

(* out stores the leaf values under keys, the last leaf of a key winning; *)
(* keys[i] is the key of the i-th leaf in iteration order                 *)
StoresLeaves(out, leaves, keys) ==
  \A i \in 1..Len(leaves) :
    LET last == CHOOSE j \in 1..Len(leaves) :
                  /\ keys[j] = keys[i]
                  /\ \A m \in (j + 1)..Len(leaves) : keys[m] # keys[i]
    IN  /\ keys[i] \in DictKeys(out)
        /\ DictGet(out, keys[i]) = leaves[last][2]

JoinedKey(path) == PyStr(Join(path, DefaultSep))

EffectiveKey(path) == PyStr(Join(DropLeadingEmpty(path), DefaultSep))

Leaf == LeafPaths(data.items, <<>>)

JoinedKeys == [i \in 1..Len(Leaf) |-> JoinedKey(Leaf[i][1])]

EffectiveKeys == [i \in 1..Len(Leaf) |-> EffectiveKey(Leaf[i][1])]

(* C6 as stated: flatten returns a single-level mapping, stores every leaf  *)
(* of key path k1..kn under k1 + sep + ... + sep + kn, keeps the value of   *)
(* the path visited last when two paths give the same key, raises nothing,  *)
(* and returns an already-flat mapping unchanged.                           *)
C6_FlattenJoinsEveryPath ==
  (lastOp = "process" /\ data.t = "dict" /\ operation = "flatten") =>
    /\ Processed
    /\ result[1].success
    /\ IsFlat(result[1].data)
    /\ StoresLeaves(result[1].data.items, Leaf, JoinedKeys)
    /\ IsFlat(data) => result[1].data = data

(* C6 amended: as stated, except that the empty-string keys at the start of *)
(* a path add neither text nor a separator: the key is the join of the path *)
(* without its leading empty keys; the output has no other keys.            *)
C6_FlattenSkipsLeadingEmptyKeys ==
  (lastOp = "process" /\ data.t = "dict" /\ operation = "flatten") =>
    /\ Processed
    /\ result[1].success
    /\ IsFlat(result[1].data)
    /\ StoresLeaves(result[1].data.items, Leaf, EffectiveKeys)
    /\ DictKeys(result[1].data.items) = Range(EffectiveKeys)
    /\ IsFlat(data) => result[1].data = data

C6_Witness ==
  /\ Processed
  /\ data = PyDict(<< <<PyStr(<<"a", "_", "a">>), PyInt(1)>>,
                      <<PyStr(<<"a">>), PyDict(<< <<PyStr(<<"a">>), PyInt(2)>> >>)>> >>)
  /\ result[1].data = PyDict(<< <<PyStr(<<"a", "_", "a">>), PyInt(2)>> >>)

====
